---- MODULE Spec2Model ----
(***************************************************************************)
(* AdvancedRAGChat (fastapi_app/rag_advanced.py): the two-phase retrieval  *)
(* augmented chat pipeline.  One action per stretch of run() between two   *)
(* suspension points (the awaits of lines 57, 71 and 93).                  *)
(*                                                                         *)
(* Python values are modelled as follows.  A str is a sequence of atoms    *)
(* (an atom is a character or an opaque piece of text), so + is \o.  A     *)
(* message content is a tagged value [t, v]: t = "str" for a str, "parts"  *)
(* for a list of content parts.  A dict is a function on its keys.  None   *)
(* where a str is expected is the atom PyNone.                             *)
(***************************************************************************)
EXTENDS Integers, Sequences, FiniteSets, TLC

VARIABLES self, ovHeap, msgHeap, catalog, args, pc, loc, trace, budgeted,
          out, atCall

vars == <<self, ovHeap, msgHeap, catalog, args, pc, loc, trace, budgeted,
          out, atCall>>

(* ----------------------------- bounds --------------------------------- *)

\* Longest result sequence the retrieval gateway returns in the model.
MaxResults == 2
\* Longest conversation history (messages before the last one).
MaxPast == 2

\* The run() coroutines that may be in flight on the one instance.
Runs == {1, 2}

(* ------------------------- program constants -------------------------- *)

\* overrides.get("top", 3)
DefaultTop == 3
\* query_response_token_limit = 500
query_response_token_limit == 500
\* response_token_limit = 1024
response_token_limit == 1024
\* get_token_limit(chat_model, default_to_minimum=True): the floor value
MinTokenLimit == 4000
\* tokens of the schema build_search_function() attaches to the first call
SearchSchemaTokens == 60

PyNone == "<None>"

(* ------------------------------ helpers ------------------------------- *)

\* dict.get(key, default)
Get(d, k, default) == IF k \in DOMAIN d THEN d[k] ELSE default

Restrict(f, S) == [k \in S |-> f[k]]

StrVal(s) == [t |-> "str", v |-> s]
PartsVal(s) == [t |-> "parts", v |-> s]

\* Mutant of IsStr: the type check of line 42 always passes
IsStrAlways(x) == TRUE

\* isinstance(x, str)
IsStr(x) == x.t = "str"

\* str(x) for an optional str: str(None) is the text "None"
PyStr(x) == IF x = <<PyNone>> THEN <<"N", "o", "n", "e">> ELSE x

\* str(message) of a message dict: its repr, a value of another type than the dict
Repr(m) == [repr |-> m]

\* [f(x) for x in seq]
MapSeq(f(_), s) == [i \in 1..Len(s) |-> f(s[i])]

RECURSIVE SumSeq(_)
SumSeq(s) == IF s = <<>> THEN 0 ELSE Head(s) + SumSeq(Tail(s))

\* All sequences over S of length at most n
SeqsUpTo(S, n) == UNION {[1..k -> S] : k \in 0..n}

(* ------------------------- collaborators' data ------------------------ *)

\* RetrievalItem (postgres_models.Item): an id and its content
Ids == {1, 2}
Contents == {"a", "b"}
Items == [id : Ids, content : Contents]

\* item.to_dict(): the serializable dict form
to_dict(item) == [form |-> "dict", id |-> item.id, content |-> item.content]

\* item.to_str_for_rag(): the renderable text
to_str_for_rag(item) == <<"Content:", item.content>>

\* str(n) of a small non-negative int, as the f-string of line 79 formats item.id
IdStr(n) == <<CASE n = 0 -> "0" [] n = 1 -> "1" [] n = 2 -> "2" [] n = 3 -> "3"
                [] n = 4 -> "4" [] OTHER -> "9">>

\* RetrievalFilter values the query rewriter can produce
Filters == {[column |-> "price", comparison_operator |-> "<", value |-> "10"]}

\* First choice of the query-generation completion, as far as
\* extract_search_arguments reads it: a well-formed search tool call, a tool
\* call whose arguments do not parse, or freeform text without a tool call.
QueryCompletions ==
    [kind : {"tool_call"}, query : {<<"q", "2">>}, filters : SeqsUpTo(Filters, 1)]
    \cup [kind : {"malformed", "text"}, query : {<<"x">>}, filters : {<<>>}]

\* First choice of the answer-generation completion: role and optional content
AnswerCompletions ==
    [role : {"assistant"}, content : {<<"a", "n", "s">>, <<PyNone>>}]

\* Failures a collaborator can raise
UpstreamErrors == {"APIError", "DBError"}

(* --------------------------- token budgeter --------------------------- *)

\* Token weight of an atom.  Two history atoms are sized to fill exactly the
\* prompt budget of each phase next to a one-token system prompt and query.
AtomTokens(a) ==
    CASE a = "hQ" -> MinTokenLimit - query_response_token_limit - 2
      [] a = "hA" -> MinTokenLimit - response_token_limit - 13
      [] OTHER -> 1

\* count_tokens_for_message
count_tokens_for_message(m) == SumSeq(MapSeq(AtomTokens, m.content.v))

PromptTokens(msgs) == SumSeq(MapSeq(count_tokens_for_message, msgs))

\* get_token_limit(model, default_to_minimum=True)
get_token_limit(model) == MinTokenLimit

\* The most recent past messages that fit, newest first, kept in original order
RECURSIVE FitPast(_, _, _)
FitPast(past, total, max_tokens) ==
    IF past = <<>> THEN <<>>
    ELSE LET m == past[Len(past)]
             c == count_tokens_for_message(m)
         IN IF total + c > max_tokens THEN <<>>
            ELSE Append(FitPast(SubSeq(past, 1, Len(past) - 1), total + c, max_tokens), m)

\* build_messages(model, system_prompt, new_user_content, past_messages, max_tokens)
build_messages(system_prompt, new_user_content, past_messages, max_tokens) ==
    LET sys == [role |-> "system", content |-> StrVal(system_prompt)]
        usr == [role |-> "user", content |-> StrVal(new_user_content)]
        base == count_tokens_for_message(sys) + count_tokens_for_message(usr)
    IN <<sys>> \o FitPast(past_messages, base, max_tokens) \o <<usr>>

\* build_search_function(): the one "search" tool schema
build_search_function == <<[type |-> "function", name |-> "search_database"]>>

ToolTokens(tools) == Len(tools) * SearchSchemaTokens

\* extract_search_arguments(original_user_query, chat_completion)
extract_search_arguments(original_user_query, chat_completion) ==
    IF chat_completion.kind = "tool_call"
    THEN [query_text |-> chat_completion.query, filters |-> chat_completion.filters]
    ELSE [query_text |-> original_user_query, filters |-> <<>>]

(* ------------------------- run(): pure pieces ------------------------- *)

\* line 37
text_search_of(overrides) ==
    Get(overrides, "retrieval_mode", PyNone) \in {"text", "hybrid", PyNone}

\* Mutant of vector_search_of: "hybrid" left out of the list of line 38
vector_search_no_hybrid(overrides) ==
    Get(overrides, "retrieval_mode", PyNone) \in {"vectors", PyNone}

\* line 38
vector_search_of(overrides) ==
    Get(overrides, "retrieval_mode", PyNone) \in {"vectors", "hybrid", PyNone}

\* line 39
top_of(overrides) == Get(overrides, "top", DefaultTop)

\* bool(chat_deployment) for a str | None
Truthy(d) == d \notin {PyNone, ""}

\* Mutant of ModelAddress: the base model name is addressed even with a deployment
ModelAddressBase(s) == s.chat_model

\* lines 60 and 95: self.chat_deployment if self.chat_deployment else self.chat_model
ModelAddress(s) == IF Truthy(s.chat_deployment) THEN s.chat_deployment ELSE s.chat_model

\* lines 112-116 and 135-139
ModelProps(s) ==
    IF Truthy(s.chat_deployment)
    THEN [model |-> s.chat_model, deployment |-> s.chat_deployment]
    ELSE [model |-> s.chat_model]

\* line 79: one piece per item
SourcePiece(item) ==
    <<"[">> \o IdStr(item.id) \o <<"]", ":">> \o to_str_for_rag(item) \o <<"\n", "\n">>

sources_content_of(results) == MapSeq(SourcePiece, results)

\* Mutant of Join: the pieces are concatenated without the separator
RECURSIVE JoinConcat(_, _)
JoinConcat(sep, pieces) ==
    IF pieces = <<>> THEN <<>> ELSE pieces[1] \o JoinConcat(sep, Tail(pieces))

\* sep.join(pieces)
RECURSIVE Join(_, _)
Join(sep, pieces) ==
    IF pieces = <<>> THEN <<>>
    ELSE IF Len(pieces) = 1 THEN pieces[1]
    ELSE pieces[1] \o sep \o Join(sep, Tail(pieces))

\* line 80
content_of(results) == Join(<<"\n">>, sources_content_of(results))

SourcesHeader == <<"\n", "\n", "S", "o", "u", "r", "c", "e", "s", ":", "\n">>

\* line 87
answer_user_content(original_user_query, results) ==
    original_user_query \o SourcesHeader \o content_of(results)

\* line 86: overrides.get("prompt_template") or self.answer_prompt_template
answer_system_prompt(overrides, s) ==
    LET p == Get(overrides, "prompt_template", <<PyNone>>)
    IN IF p \in {<<PyNone>>, <<>>} THEN s.answer_prompt_template ELSE p

\* Mutant of data_points_of: the first item with an id is kept, not the last
RECURSIVE data_points_first_wins(_)
data_points_first_wins(results) ==
    IF results = <<>> THEN <<>>
    ELSE LET n == Len(results)
             item == results[n]
             before == data_points_first_wins(SubSeq(results, 1, n - 1))
         IN [k \in DOMAIN before \cup {item.id} |->
                IF k \in DOMAIN before THEN before[k] ELSE to_dict(item)]

\* line 107: {item.id: item.to_dict() for item in results}; a later item
\* replaces an earlier one with the same id
RECURSIVE data_points_of(_)
data_points_of(results) ==
    IF results = <<>> THEN <<>>
    ELSE LET n == Len(results)
             item == results[n]
             before == data_points_of(SubSeq(results, 1, n - 1))
         IN [k \in DOMAIN before \cup {item.id} |->
                IF k = item.id THEN to_dict(item) ELSE before[k]]

\* Mutant of thoughts_of: the "Search results" step is left out when nothing was found
thoughts_skip_empty(s, l) ==
    LET first == [title |-> "Prompt to generate search arguments",
                  description |-> MapSeq(Repr, l.query_messages),
                  props |-> ModelProps(s)]
        second == [title |-> "Search using generated search arguments",
                   description |-> l.query_text,
                   props |-> [top |-> l.top, vector_search |-> l.vector_search,
                              text_search |-> l.text_search, filters |-> l.filters]]
        third == [title |-> "Search results",
                  description |-> MapSeq(to_dict, l.results)]
        fourth == [title |-> "Prompt to generate answer",
                   description |-> MapSeq(Repr, l.contextual_messages),
                   props |-> ModelProps(s)]
    IN IF l.results = <<>> THEN <<first, second, fourth>>
       ELSE <<first, second, third, fourth>>

\* lines 108-141: the four thought steps, from the instance s and the locals l
thoughts_of(s, l) ==
    << [title |-> "Prompt to generate search arguments",
        description |-> MapSeq(Repr, l.query_messages),
        props |-> ModelProps(s)],
       [title |-> "Search using generated search arguments",
        description |-> l.query_text,
        props |-> [top |-> l.top, vector_search |-> l.vector_search,
                   text_search |-> l.text_search, filters |-> l.filters]],
       [title |-> "Search results",
        description |-> MapSeq(to_dict, l.results)],
       [title |-> "Prompt to generate answer",
        description |-> MapSeq(Repr, l.contextual_messages),
        props |-> ModelProps(s)] >>

\* lines 104-143: RetrievalResponse(message=..., context=RAGContext(...))
RetrievalResponse(s, l, first_choice_message) ==
    [message |-> [content |-> PyStr(first_choice_message.content),
                  role |-> first_choice_message.role],
     context |-> [data_points |-> data_points_of(l.results),
                  thoughts |-> thoughts_of(s, l)]]

(* ------------------------------- state -------------------------------- *)

OvObjs == {"defaultOv", "ovA"}
MsgObjs == {"msgsA", "msgsB"}

\* Local variables of one run() frame before any is assigned
NoLocals ==
    [text_search |-> FALSE, vector_search |-> FALSE, top |-> 0,
     original_user_query |-> <<>>, past_messages |-> <<>>, query_messages |-> <<>>,
     query_text |-> <<>>, filters |-> <<>>, results |-> <<>>,
     contextual_messages |-> <<>>]

NoOutcome == [kind |-> "none"]

Deployments == {PyNone, "", "my-deployment"}

\* The instance after __init__ (lines 25-32)
Instance(chat_model, chat_deployment) ==
    [searcher |-> "searcher", openai_chat_client |-> "client",
     chat_model |-> chat_model, chat_deployment |-> chat_deployment,
     chat_token_limit |-> get_token_limit(chat_model),
     query_prompt_template |-> <<"QT">>, answer_prompt_template |-> <<"AT">>]

UserMsg(atom) == [role |-> "user", content |-> StrVal(<<atom>>)]
PartsMsg == [role |-> "user", content |-> PartsVal(<<"image">>)]

OvKeys == {"retrieval_mode", "top", "prompt_template", "temperature"}

\* The dicts a caller passes as overrides
OverridesOver(modes, tops, templates, temps) ==
    {Restrict(f, S) : f \in [retrieval_mode : modes, top : tops,
                             prompt_template : templates, temperature : temps],
                      S \in SUBSET OvKeys}

TypeOK ==
    /\ pc \in [Runs -> {"idle", "called", "await_query", "await_search",
                        "await_answer", "returned", "raised"}]
    /\ args \in [Runs -> [overrides : OvObjs, messages : MsgObjs]]
    /\ catalog \subseteq Items

\* State shared by every specification: nothing has run yet
InitCommon ==
    /\ loc = [r \in Runs |-> NoLocals]
    /\ trace = [r \in Runs |-> <<>>]
    /\ budgeted = [r \in Runs |-> <<>>]
    /\ out = [r \in Runs |-> NoOutcome]
    /\ atCall = [r \in Runs |-> NoOutcome]

\* One call of run(); every override and every input shape
Init ==
    /\ \E d \in Deployments : self = Instance("gpt-35-turbo", d)
    /\ \E o \in OverridesOver({"text", "vectors", "hybrid", "semantic", PyNone},
                              {1, 2}, {<<"PT">>}, {"0.7"}) :
          /\ "temperature" \notin DOMAIN o
          /\ ovHeap = [defaultOv |-> <<>>, ovA |-> o]
    /\ \E last \in {UserMsg("q"), PartsMsg}, past \in SeqsUpTo({UserMsg("h")}, MaxPast) :
          msgHeap = [msgsA |-> Append(past, last), msgsB |-> <<UserMsg("q")>>]
    /\ \E ov \in OvObjs :
          /\ args = [r \in Runs |-> [overrides |-> ov, messages |-> "msgsA"]]
          /\ ov = "defaultOv" => ovHeap.ovA = <<>>
    /\ pc = [r \in Runs |-> IF r = 1 THEN "called" ELSE "idle"]
    /\ catalog = {i \in Items : i.id = 1 \/ i.content = "a"}
    /\ InitCommon

(* ------------------------------ events -------------------------------- *)

CallEv(call, req) == [ev |-> "call", call |-> call, req |-> req]
ReturnEv(call, res) == [ev |-> "return", call |-> call, res |-> res]
FailEv(call, err) == [ev |-> "fail", call |-> call, err |-> err]

\* lines 57-66: the request of the query-generation completion
QueryRequest(s, query_messages) ==
    [messages |-> query_messages, model |-> ModelAddress(s), temperature |-> "0.0",
     max_tokens |-> query_response_token_limit, n |-> 1,
     tools |-> build_search_function, tool_choice |-> "auto", stream |-> FALSE]

\* lines 71-77: the request to searcher.search_and_embed
SearchRequest(query_text, top, vector_search, text_search, filters) ==
    [query_text |-> query_text, top |-> top,
     enable_vector_search |-> vector_search, enable_text_search |-> text_search,
     filters |-> filters]

\* lines 93-101: the request of the answer-generation completion
AnswerRequest(s, overrides, contextual_messages) ==
    [messages |-> contextual_messages, model |-> ModelAddress(s),
     temperature |-> Get(overrides, "temperature", "0.3"),
     max_tokens |-> response_token_limit, n |-> 1,
     tools |-> <<>>, tool_choice |-> "none", stream |-> FALSE]

\* A build_messages invocation and what it returned
BudgetEv(system_prompt, new_user_content, past_messages, max_tokens) ==
    [system_prompt |-> system_prompt, new_user_content |-> new_user_content,
     past_messages |-> past_messages, max_tokens |-> max_tokens,
     result |-> build_messages(system_prompt, new_user_content, past_messages,
                               max_tokens)]

\* Mutant of Raise: the failure is swallowed and a response without context returned
RaisePartial(r, err) ==
    /\ pc' = [pc EXCEPT ![r] = "returned"]
    /\ out' = [out EXCEPT ![r] =
                  [kind |-> "response",
                   response |-> [message |-> [content |-> <<>>, role |-> "assistant"],
                                 context |-> [data_points |-> <<>>, thoughts |-> <<>>]]]]

\* An exception leaves run(): nothing catches it, the caller gets it as raised
Raise(r, err) ==
    /\ pc' = [pc EXCEPT ![r] = "raised"]
    /\ out' = [out EXCEPT ![r] = [kind |-> "error", error |-> err]]

(* ------------------------------ actions ------------------------------- *)

\* lines 37-66: what run() computes and issues up to the first await
RunToFirstAwait(r) ==
    /\ pc[r] = "called"
    /\ LET overrides == ovHeap[args[r].overrides]
           messages == msgHeap[args[r].messages]
           original_user_query == messages[Len(messages)].content
           past_messages == SubSeq(messages, 1, Len(messages) - 1)
           l1 == [loc[r] EXCEPT !.text_search = text_search_of(overrides),
                                !.vector_search = vector_search_of(overrides),
                                !.top = top_of(overrides)]
       IN /\ atCall' = [atCall EXCEPT ![r] =
                           [kind |-> "call", overrides |-> overrides,
                            messages |-> messages]]
          /\ IF ~IsStr(original_user_query)
             THEN /\ Raise(r, "ValueError")
                  /\ loc' = [loc EXCEPT ![r] = l1]
                  /\ UNCHANGED <<trace, budgeted>>
             ELSE LET b == BudgetEv(self.query_prompt_template, original_user_query.v,
                                    past_messages,
                                    self.chat_token_limit - query_response_token_limit)
                  IN /\ loc' = [loc EXCEPT ![r] =
                                   [l1 EXCEPT !.original_user_query = original_user_query.v,
                                              !.past_messages = past_messages,
                                              !.query_messages = b.result]]
                     /\ budgeted' = [budgeted EXCEPT ![r] = Append(@, b)]
                     /\ trace' = [trace EXCEPT ![r] =
                                     Append(@, CallEv("query_completion",
                                                      QueryRequest(self, b.result)))]
                     /\ pc' = [pc EXCEPT ![r] = "await_query"]
                     /\ UNCHANGED out

\* Mutant of Start: the defaults are stored into the overrides dict that was
\* passed (overrides.setdefault("top", 3)), the shared default dict included
StartSetDefault(r) ==
    /\ RunToFirstAwait(r)
    /\ ovHeap' = [ovHeap EXCEPT ![args[r].overrides] =
                     [k \in DOMAIN @ \cup {"top"} |-> IF k \in DOMAIN @ THEN @[k] ELSE DefaultTop]]
    /\ UNCHANGED <<self, msgHeap, catalog, args>>

\* lines 37-66: from the call to the first await; overrides and messages are
\* only read (dict.get, indexing, slicing), no field of self is assigned
Start(r) ==
    /\ RunToFirstAwait(r)
    /\ UNCHANGED <<self, ovHeap, msgHeap, catalog, args>>

\* Mutant of QueryCompletionReturns: retrieval is skipped when the model made
\* no well-formed search tool call
QueryCompletionReturnsSkip(r) ==
    /\ pc[r] = "await_query"
    /\ \E chat_completion \in QueryCompletions :
          LET a == extract_search_arguments(loc[r].original_user_query, chat_completion)
              l == loc[r]
              overrides == ovHeap[args[r].overrides]
              b == BudgetEv(answer_system_prompt(overrides, self),
                            answer_user_content(l.original_user_query, <<>>),
                            l.past_messages,
                            self.chat_token_limit - response_token_limit)
          IN IF chat_completion.kind = "tool_call"
             THEN /\ loc' = [loc EXCEPT ![r] = [l EXCEPT !.query_text = a.query_text,
                                                          !.filters = a.filters]]
                  /\ trace' = [trace EXCEPT ![r] =
                                  @ \o <<ReturnEv("query_completion", chat_completion),
                                         CallEv("search",
                                                SearchRequest(a.query_text, l.top,
                                                              l.vector_search,
                                                              l.text_search, a.filters))>>]
                  /\ pc' = [pc EXCEPT ![r] = "await_search"]
                  /\ UNCHANGED budgeted
             ELSE /\ loc' = [loc EXCEPT ![r] = [l EXCEPT !.query_text = a.query_text,
                                                          !.contextual_messages = b.result]]
                  /\ budgeted' = [budgeted EXCEPT ![r] = Append(@, b)]
                  /\ trace' = [trace EXCEPT ![r] =
                                  @ \o <<ReturnEv("query_completion", chat_completion),
                                         CallEv("answer_completion",
                                                AnswerRequest(self, overrides, b.result))>>]
                  /\ pc' = [pc EXCEPT ![r] = "await_answer"]
    /\ UNCHANGED <<self, ovHeap, msgHeap, catalog, args, out, atCall>>

\* lines 57-77: the first completion returns; extract arguments, call the gateway
QueryCompletionReturns(r) ==
    /\ pc[r] = "await_query"
    /\ \E chat_completion \in QueryCompletions :
          LET a == extract_search_arguments(loc[r].original_user_query, chat_completion)
              l == loc[r]
          IN /\ loc' = [loc EXCEPT ![r] = [l EXCEPT !.query_text = a.query_text,
                                                     !.filters = a.filters]]
             /\ trace' = [trace EXCEPT ![r] =
                             @ \o <<ReturnEv("query_completion", chat_completion),
                                    CallEv("search",
                                           SearchRequest(a.query_text, l.top,
                                                         l.vector_search, l.text_search,
                                                         a.filters))>>]
    /\ pc' = [pc EXCEPT ![r] = "await_search"]
    /\ UNCHANGED <<self, ovHeap, msgHeap, catalog, args, budgeted, out, atCall>>

\* line 57: the first completion raises
QueryCompletionFails(r) ==
    /\ pc[r] = "await_query"
    /\ \E err \in UpstreamErrors :
          /\ trace' = [trace EXCEPT ![r] = Append(@, FailEv("query_completion", err))]
          /\ Raise(r, err)
    /\ UNCHANGED <<self, ovHeap, msgHeap, catalog, args, loc, budgeted, atCall>>

\* lines 71-101: the gateway returns; compose the answer prompt, call the model
SearchReturns(r) ==
    /\ pc[r] = "await_search"
    /\ \E results \in SeqsUpTo(catalog, MaxResults) :
          LET overrides == ovHeap[args[r].overrides]
              l == loc[r]
              b == BudgetEv(answer_system_prompt(overrides, self),
                            answer_user_content(l.original_user_query, results),
                            l.past_messages,
                            self.chat_token_limit - response_token_limit)
          IN /\ loc' = [loc EXCEPT ![r] = [l EXCEPT !.results = results,
                                                     !.contextual_messages = b.result]]
             /\ budgeted' = [budgeted EXCEPT ![r] = Append(@, b)]
             /\ trace' = [trace EXCEPT ![r] =
                             @ \o <<ReturnEv("search", results),
                                    CallEv("answer_completion",
                                           AnswerRequest(self, overrides, b.result))>>]
    /\ pc' = [pc EXCEPT ![r] = "await_answer"]
    /\ UNCHANGED <<self, ovHeap, msgHeap, catalog, args, out, atCall>>

\* line 71: the gateway raises
SearchFails(r) ==
    /\ pc[r] = "await_search"
    /\ \E err \in UpstreamErrors :
          /\ trace' = [trace EXCEPT ![r] = Append(@, FailEv("search", err))]
          /\ Raise(r, err)
    /\ UNCHANGED <<self, ovHeap, msgHeap, catalog, args, loc, budgeted, atCall>>

\* lines 93-143: the second completion returns; assemble and return the response
AnswerCompletionReturns(r) ==
    /\ pc[r] = "await_answer"
    /\ \E first_choice_message \in AnswerCompletions :
          /\ trace' = [trace EXCEPT ![r] =
                          Append(@, ReturnEv("answer_completion", first_choice_message))]
          /\ out' = [out EXCEPT ![r] =
                        [kind |-> "response",
                         response |-> RetrievalResponse(self, loc[r],
                                                        first_choice_message)]]
    /\ pc' = [pc EXCEPT ![r] = "returned"]
    /\ UNCHANGED <<self, ovHeap, msgHeap, catalog, args, loc, budgeted, atCall>>

\* line 93: the second completion raises
AnswerCompletionFails(r) ==
    /\ pc[r] = "await_answer"
    /\ \E err \in UpstreamErrors :
          /\ trace' = [trace EXCEPT ![r] = Append(@, FailEv("answer_completion", err))]
          /\ Raise(r, err)
    /\ UNCHANGED <<self, ovHeap, msgHeap, catalog, args, loc, budgeted, atCall>>

Next ==
    \E r \in Runs :
        \/ Start(r)
        \/ QueryCompletionReturns(r)
        \/ QueryCompletionFails(r)
        \/ SearchReturns(r)
        \/ SearchFails(r)
        \/ AnswerCompletionReturns(r)
        \/ AnswerCompletionFails(r)

Spec == Init /\ [][Next]_vars

\* One call of run() on conversations whose history is near the prompt budget
InitBudget ==
    /\ self = Instance("gpt-35-turbo", PyNone)
    /\ \E o \in {<<>>, [prompt_template |-> <<"PT">>, temperature |-> "0.7"]} :
          ovHeap = [defaultOv |-> <<>>, ovA |-> o]
    /\ \E past \in SeqsUpTo({UserMsg("h"), UserMsg("hQ"), UserMsg("hA")}, MaxPast) :
          msgHeap = [msgsA |-> Append(past, UserMsg("q")), msgsB |-> <<PartsMsg>>]
    /\ \E m \in MsgObjs :
          args = [r \in Runs |-> [overrides |-> "ovA", messages |-> m]]
    /\ pc = [r \in Runs |-> IF r = 1 THEN "called" ELSE "idle"]
    /\ catalog = {[id |-> 1, content |-> "a"]}
    /\ InitCommon

SpecBudget == InitBudget /\ [][Next]_vars

\* Two calls of run() in flight on the same instance; they may share the
\* default overrides object, a caller's overrides dict and a messages list
InitConc ==
    /\ self = Instance("gpt-35-turbo", "my-deployment")
    /\ \E o \in {[prompt_template |-> <<"PT">>], [retrieval_mode |-> "text", top |-> 1]} :
          ovHeap = [defaultOv |-> <<>>, ovA |-> o]
    /\ msgHeap = [msgsA |-> <<UserMsg("h"), UserMsg("q")>>, msgsB |-> <<UserMsg("p")>>]
    /\ args \in [Runs -> [overrides : OvObjs, messages : MsgObjs]]
    /\ args[1].messages = "msgsA"
    /\ pc = [r \in Runs |-> "called"]
    /\ catalog = {[id |-> 1, content |-> "a"]}
    /\ InitCommon

SpecConc == InitConc /\ [][Next]_vars

(* ------------------------------ claims -------------------------------- *)

Started(r) == pc[r] \notin {"idle", "called"}

LastContent(r) ==
    LET m == msgHeap[args[r].messages] IN m[Len(m)].content

\* The (event, call) pairs of a trace
EvCall(e) == <<e.ev, e.call>>
Sig(t) == MapSeq(EvCall, t)

FullSig ==
    << <<"call", "query_completion">>, <<"return", "query_completion">>,
       <<"call", "search">>, <<"return", "search">>,
       <<"call", "answer_completion">>, <<"return", "answer_completion">> >>

\* The requests of the calls named `call` in a trace
RequestsOf(t, call) ==
    LET idx == {i \in DOMAIN t : t[i].ev = "call" /\ t[i].call = call}
    IN {t[i].req : i \in idx}

\* C1: a run whose last message content is not a str fails with the
\* invalid-input error (ValueError) having issued no completion call, no
\* gateway call and no token-budgeting call, and constructs no response.
C1_InvalidInputNoCalls ==
    \A r \in Runs :
        (Started(r) /\ ~(LastContent(r).t = "str")) =>
            /\ pc[r] = "raised"
            /\ out[r].kind = "error"
            /\ out[r].error = "ValueError"
            /\ trace[r] = <<>>
            /\ budgeted[r] = <<>>

C1_Witness ==
    \E r \in Runs : pc[r] = "raised" /\ LastContent(r).t = "parts"

\* C2: the external calls are issued in the order query completion, gateway
\* search, answer completion, each once and each only after the previous one
\* returned; a run that returns a response has made exactly all three.
C2_StrictSequence ==
    \A r \in Runs :
        LET s == Sig(trace[r]) IN
        /\ \/ \E k \in 0..Len(FullSig) : s = SubSeq(FullSig, 1, k)
           \/ \E k \in {1, 3, 5} :
                 s = Append(SubSeq(FullSig, 1, k), <<"fail", FullSig[k][2]>>)
        /\ out[r].kind = "response" => s = FullSig
        /\ pc[r] = "returned" => out[r].kind = "response"

C2_Witness ==
    \E r \in Runs : out[r].kind = "response" /\ Len(trace[r]) = Len(FullSig)

\* C3: when one of the three calls fails the run raises that very error, with
\* no retry, no later call and no response; a response exists only after three
\* successful calls and then has its message, data_points and four thoughts.
C3_FailurePropagates ==
    \A r \in Runs :
        LET t == trace[r]
            failed == {i \in DOMAIN t : t[i].ev = "fail"}
        IN /\ \A i \in failed :
                 /\ i = Len(t)
                 /\ pc[r] = "raised"
                 /\ out[r].kind = "error"
                 /\ out[r].error = t[i].err
           /\ \A i, j \in DOMAIN t :
                 (t[i].ev = "call" /\ t[j].ev = "call" /\ t[i].call = t[j].call) => i = j
           /\ out[r].kind = "response" =>
                 /\ failed = {}
                 /\ {t[i].call : i \in {j \in DOMAIN t : t[j].ev = "return"}}
                       = {"query_completion", "search", "answer_completion"}
                 /\ DOMAIN out[r].response = {"message", "context"}
                 /\ DOMAIN out[r].response.message = {"content", "role"}
                 /\ DOMAIN out[r].response.context = {"data_points", "thoughts"}
                 /\ Len(out[r].response.context.thoughts) = 4

C3_Witness ==
    \E r \in Runs :
        /\ pc[r] = "raised"
        /\ Len(trace[r]) = 4
        /\ trace[r][4].ev = "fail"
        /\ out[r].error = "DBError"

\* C4: the gateway is invoked with both flags for an absent or "hybrid"
\* retrieval_mode, only text for "text", only vector for "vectors", and with
\* top = overrides' top, or 3 when the key is absent.
C4_ModeFlags ==
    \A r \in Runs :
        \A req \in RequestsOf(trace[r], "search") :
            LET ov == ovHeap[args[r].overrides]
                set == "retrieval_mode" \in DOMAIN ov
            IN /\ (~set \/ (set /\ ov.retrieval_mode = "hybrid")) =>
                     (req.enable_text_search /\ req.enable_vector_search)
               /\ (set /\ ov.retrieval_mode = "text") =>
                     (req.enable_text_search /\ ~req.enable_vector_search)
               /\ (set /\ ov.retrieval_mode = "vectors") =>
                     (req.enable_vector_search /\ ~req.enable_text_search)
               /\ (set /\ ov.retrieval_mode \in {"hybrid", "text", "vectors"}) =>
                     (req.enable_text_search \/ req.enable_vector_search)
               /\ req.top = (IF "top" \in DOMAIN ov THEN ov.top ELSE 3)

C4_Witness ==
    \E r \in Runs :
        \E req \in RequestsOf(trace[r], "search") :
            /\ ovHeap[args[r].overrides] = [retrieval_mode |-> "text", top |-> 1]
            /\ req.enable_text_search /\ ~req.enable_vector_search /\ req.top = 1

\* What the collaborators answered in a trace
IsAnswer(e) == e.ev # "call"
Answers(t) == SelectSeq(t, IsAnswer)

\* The result sequences the gateway returned in a trace
ResultsOf(t) ==
    {t[i].res : i \in {j \in DOMAIN t : t[j].ev = "return" /\ t[j].call = "search"}}

Responded(r) == out[r].kind = "response"

\* C5 as claimed: the keys of data_points are exactly the returned ids, result
\* items and entries correspond one-to-one, and each item's id maps to that
\* item's dict form, for every result sequence.
C5_Claimed ==
    \A r \in Runs :
        Responded(r) =>
            \A results \in ResultsOf(trace[r]) :
                LET dp == out[r].response.context.data_points IN
                /\ DOMAIN dp = {results[i].id : i \in DOMAIN results}
                /\ Cardinality(DOMAIN dp) = Len(results)
                /\ \A i \in DOMAIN results :
                      dp[results[i].id] = to_dict(results[i])

\* C5 amended: the keys of data_points are exactly the returned ids; each key
\* maps to the dict form of the last returned item carrying that id; when the
\* returned ids are pairwise distinct the correspondence is one-to-one.
C5_DataPoints ==
    \A r \in Runs :
        Responded(r) =>
            \A results \in ResultsOf(trace[r]) :
                LET dp == out[r].response.context.data_points
                    n == Len(results)
                    distinct == \A i, j \in 1..n : results[i].id = results[j].id => i = j
                IN /\ DOMAIN dp = {results[i].id : i \in 1..n}
                   /\ \A i \in 1..n :
                         (\A j \in (i + 1)..n : results[j].id # results[i].id) =>
                             /\ dp[results[i].id].form = "dict"
                             /\ dp[results[i].id].id = results[i].id
                             /\ dp[results[i].id].content = results[i].content
                   /\ distinct => Cardinality(DOMAIN dp) = n

C5_Witness ==
    \E r \in Runs :
        /\ Responded(r)
        /\ \E results \in ResultsOf(trace[r]) :
              /\ Len(results) = 2
              /\ results[1].id = results[2].id
              /\ results[1].content # results[2].content
              /\ out[r].response.context.data_points[results[1].id].content
                    = results[2].content

\* The chat requests of a trace
ChatRequests(t) ==
    RequestsOf(t, "query_completion") \cup RequestsOf(t, "answer_completion")

\* C6: each completion call budgets its prompt with the ceiling (context limit
\* - reserved budget of the phase), requests at most the reserved output, and
\* the prompt plus the attached tool schema plus the reserved output fits the
\* model's context window.
C6_FitsContextWindow ==
    \A r \in Runs :
        /\ \A i \in DOMAIN budgeted[r] :
              budgeted[r][i].max_tokens =
                  self.chat_token_limit - (IF i = 1 THEN 500 ELSE 1024)
        /\ \A req \in RequestsOf(trace[r], "query_completion") : req.max_tokens <= 500
        /\ \A req \in RequestsOf(trace[r], "answer_completion") : req.max_tokens <= 1024
        /\ \A req \in ChatRequests(trace[r]) :
              PromptTokens(req.messages) + ToolTokens(req.tools) + req.max_tokens
                  <= self.chat_token_limit

\* The piece the claim gives for one item: "[" + id + "]: " + text + "\n\n"
ClaimedPiece(item) ==
    <<"[">> \o IdStr(item.id) \o <<"]", ":", " ">> \o to_str_for_rag(item) \o <<"\n", "\n">>

RECURSIVE ClaimedBlock(_)
ClaimedBlock(results) ==
    IF results = <<>> THEN <<>>
    ELSE ClaimedPiece(Head(results)) \o ClaimedBlock(Tail(results))

\* "[" + id + "]:" + text + "\n\n", with one more "\n" before every piece but the first
RECURSIVE AmendedBlock(_, _)
AmendedBlock(results, i) ==
    IF i > Len(results) THEN <<>>
    ELSE (IF i > 1 THEN <<"\n">> ELSE <<>>)
         \o <<"[">> \o IdStr(results[i].id) \o <<"]", ":">>
         \o to_str_for_rag(results[i]) \o <<"\n", "\n">>
         \o AmendedBlock(results, i + 1)

\* The user content sent with the answer-generation call
AnswerUserContents(t) ==
    {req.messages[Len(req.messages)].content.v : req \in RequestsOf(t, "answer_completion")}

QueryOf(r) == LastContent(r).v

\* C7 as claimed: the context block after "\n\nSources:\n" is the plain
\* concatenation of "[" + id + "]: " + text + "\n\n" over the results in order.
C7_Claimed ==
    \A r \in Runs :
        \A results \in ResultsOf(trace[r]) :
            \A c \in AnswerUserContents(trace[r]) :
                c = QueryOf(r) \o SourcesHeader \o ClaimedBlock(results)

\* C7 amended: the context block after "\n\nSources:\n" is, in result order,
\* one piece "[" + id + "]:" + text + "\n\n" per item (no space after the
\* colon), consecutive pieces separated by one "\n", and empty for no results.
C7_ContextBlock ==
    \A r \in Runs :
        \A results \in ResultsOf(trace[r]) :
            \A c \in AnswerUserContents(trace[r]) :
                c = QueryOf(r) \o SourcesHeader \o AmendedBlock(results, 1)

C7_Witness ==
    \E r \in Runs :
        /\ AnswerUserContents(trace[r]) # {}
        /\ \E results \in ResultsOf(trace[r]) :
              Len(results) = 2 /\ results[1] # results[2]

Thoughts(r) == out[r].response.context.thoughts

ThoughtTitles ==
    <<"Prompt to generate search arguments", "Search using generated search arguments",
      "Search results", "Prompt to generate answer">>

Title(step) == step.title

\* C8: a returned response has exactly four thought steps, in the order
\* query-generation prompt, search invocation, search results, answer prompt;
\* the second describes the query text, top, flags and filters actually sent
\* to the gateway, the third the results in dict form; for every retrieval
\* mode, result count and extraction outcome.
C8_FourThoughts ==
    \A r \in Runs :
        Responded(r) =>
            /\ Len(Thoughts(r)) = 4
            /\ MapSeq(Title, Thoughts(r)) = ThoughtTitles
            /\ \A req \in RequestsOf(trace[r], "query_completion") :
                  Thoughts(r)[1].description = MapSeq(Repr, req.messages)
            /\ \A req \in RequestsOf(trace[r], "search") :
                  /\ Thoughts(r)[2].description = req.query_text
                  /\ Thoughts(r)[2].props =
                        [top |-> req.top, vector_search |-> req.enable_vector_search,
                         text_search |-> req.enable_text_search, filters |-> req.filters]
            /\ \A results \in ResultsOf(trace[r]) :
                  Thoughts(r)[3].description = MapSeq(to_dict, results)
            /\ \A req \in RequestsOf(trace[r], "answer_completion") :
                  Thoughts(r)[4].description = MapSeq(Repr, req.messages)

\* A response after a malformed tool call, with no result, in text-only mode
C8_Witness ==
    \E r \in Runs :
        /\ Responded(r)
        /\ trace[r][2].res.kind = "malformed"
        /\ ResultsOf(trace[r]) = {<<>>}
        /\ Thoughts(r)[2].description = QueryOf(r)
        /\ ~Thoughts(r)[2].props.vector_search

\* A deployment identifier is configured: chat_deployment is a non-empty str
Configured == self.chat_deployment # PyNone /\ self.chat_deployment # ""

\* C9: with a deployment configured both completion calls address the
\* deployment and the first and fourth thought steps record model and
\* deployment; without one both address the base model name and the steps
\* record the model only.
C9_DeploymentAddressed ==
    \A r \in Runs :
        /\ \A req \in ChatRequests(trace[r]) :
              req.model = (IF Configured THEN self.chat_deployment ELSE self.chat_model)
        /\ Responded(r) =>
              \A i \in {1, 4} :
                  LET props == Thoughts(r)[i].props IN
                  /\ DOMAIN props = (IF Configured THEN {"model", "deployment"}
                                     ELSE {"model"})
                  /\ props.model = self.chat_model
                  /\ Configured => props.deployment = self.chat_deployment
                  /\ \A req \in ChatRequests(trace[r]) :
                        req.model = (IF Configured THEN props.deployment ELSE props.model)

C9_Witness ==
    \E r \in Runs :
        /\ Responded(r)
        /\ Configured
        /\ \A req \in ChatRequests(trace[r]) : req.model = "my-deployment"
        /\ Thoughts(r)[4].props.deployment = "my-deployment"

\* run() executed alone: the trace and the outcome as a function of the
\* instance, the argument values at the call and the collaborators' answers
RunAlone(s, overrides, messages, answers) ==
    LET oq == messages[Len(messages)].content
        past == SubSeq(messages, 1, Len(messages) - 1)
        qm == build_messages(s.query_prompt_template, oq.v, past,
                             s.chat_token_limit - query_response_token_limit)
        c1 == CallEv("query_completion", QueryRequest(s, qm))
        a == extract_search_arguments(oq.v, answers[1].res)
        c2 == CallEv("search", SearchRequest(a.query_text, top_of(overrides),
                                             vector_search_of(overrides),
                                             text_search_of(overrides), a.filters))
        results == answers[2].res
        cm == build_messages(answer_system_prompt(overrides, s),
                             answer_user_content(oq.v, results), past,
                             s.chat_token_limit - response_token_limit)
        c3 == CallEv("answer_completion", AnswerRequest(s, overrides, cm))
        l == [NoLocals EXCEPT !.text_search = text_search_of(overrides),
                              !.vector_search = vector_search_of(overrides),
                              !.top = top_of(overrides),
                              !.original_user_query = oq.v,
                              !.past_messages = past,
                              !.query_messages = qm,
                              !.query_text = a.query_text,
                              !.filters = a.filters,
                              !.results = results,
                              !.contextual_messages = cm]
        n == Len(answers)
        Pending(t) == [trace |-> t, kind |-> "none", error |-> "", response |-> <<>>]
        Failed(t, err) == [trace |-> t, kind |-> "error", error |-> err, response |-> <<>>]
    IN IF oq.t # "str" THEN Failed(<<>>, "ValueError")
       ELSE IF n = 0 THEN Pending(<<c1>>)
       ELSE IF answers[1].ev = "fail" THEN Failed(<<c1, answers[1]>>, answers[1].err)
       ELSE IF n = 1 THEN Pending(<<c1, answers[1], c2>>)
       ELSE IF answers[2].ev = "fail"
            THEN Failed(<<c1, answers[1], c2, answers[2]>>, answers[2].err)
       ELSE IF n = 2 THEN Pending(<<c1, answers[1], c2, answers[2], c3>>)
       ELSE IF answers[3].ev = "fail"
            THEN Failed(<<c1, answers[1], c2, answers[2], c3, answers[3]>>, answers[3].err)
       ELSE [trace |-> <<c1, answers[1], c2, answers[2], c3, answers[3]>>,
             kind |-> "response", error |-> "",
             response |-> RetrievalResponse(s, l, answers[3].res)]

\* Each started run did what it does alone on the values passed at its call
IsolatedRuns ==
    \A r \in Runs :
        Started(r) =>
            LET alone == RunAlone(self, atCall[r].overrides, atCall[r].messages,
                                  Answers(trace[r]))
            IN /\ trace[r] = alone.trace
               /\ out[r].kind = alone.kind
               /\ out[r].kind = "error" => out[r].error = alone.error
               /\ out[r].kind = "response" => out[r].response = alone.response

\* No step writes the instance, an overrides dict or a messages list
NoSharedWrite ==
    /\ self' = self
    /\ ovHeap' = ovHeap
    /\ msgHeap' = msgHeap

\* C10: interleaved runs on one instance share no mutable state: no run writes
\* the instance fields, the caller's messages or overrides (the shared default
\* overrides object included), and each run issues the calls and returns the
\* response it produces alone on the same collaborator answers.
C10_NoSharedState == [][NoSharedWrite]_vars /\ []IsolatedRuns

\* Both runs returned a response, sharing the default overrides object, and
\* the second started while the first was suspended
C10_Witness ==
    /\ \A r \in Runs : Responded(r) /\ args[r].overrides = "defaultOv"
    /\ args[1].messages # args[2].messages

====
